---------------------------- MODULE Spec2Model ----------------------------
(***************************************************************************)
(* Token-bucket rate limiter (mikuspikus/go-rate-limiter).                 *)
(*                                                                         *)
(* The in-process storage (memstorage.go, bucket.go) is modelled as a set  *)
(* of goroutines that run Take/Get/Set/Burst/Close against a registry of   *)
(* bucket objects, plus the purge goroutine.  A step of a goroutine is     *)
(* one critical section (or one lock-free statement group) of the code.    *)
(* Time is the value nanoNow() returns; it never goes backwards.           *)
(*                                                                         *)
(* Atomicity.  bucket.lock is only ever held for the length of one         *)
(* critical section that touches that bucket alone, so each such section   *)
(* is one step.  storage.bucketLock is held across steps only by purge,    *)
(* which keeps it for a whole pass; every other holder is one step that    *)
(* is enabled when purge does not hold it.  Burst (registry lock, then     *)
(* bucket lock, registry unlock, add, bucket unlock) is acquire / access / *)
(* release of state nobody else can touch meanwhile and is one step.       *)
(* Returning to the caller is local to the goroutine: it is scheduled      *)
(* right after the step that produced the result.                          *)
(*                                                                         *)
(* The distributed storage (redigo RedisStorage, scripttemplate.lua) is    *)
(* modelled by the record the server keeps under each key and by the       *)
(* connection pool; a command sent on a connection takes effect in one     *)
(* step.  Spec runs either storage with two goroutines; SpecTake is the    *)
(* scenario of TestMemStorage_Take, 2N goroutines that each Take once.     *)
(***************************************************************************)
EXTENDS Integers, Sequences, FiniteSets, Bags

\* ------------------------------------------------------------------ bounds
\* largest capacity a storage is configured with
MaxTokens == 2
\* the clock runs from 0 to MaxTime (ns)
MaxTime == 2

\* the intervals (ns) and idle TTLs (ns) storages and Set calls are given
Intervals == {1, 2}
TTLs == {1}
\* the interval the storages of Spec are configured with (Set installs either)
LongInterval == CHOOSE i \in Intervals : \A j \in Intervals : j <= i
\* the token counts Set and Burst are called with
Amounts == {0, 2}
\* the calls made in one run of Spec, in the order they start
Calls == {1, 2, 3}

\* uint64 arithmetic is modelled modulo Wrap (2^64 in the code, scaled down here)
Wrap == 1024

\* the largest int64, and the smallest uint64 above it, on the scale of Wrap
MaxInt64 == (Wrap \div 2) - 1
Big == Wrap \div 2
\* the token counts the distributed Set is called with
SetAmounts == Amounts \cup {Big}

Keys == {"a"}
\* goroutines that call the storage in Spec
Clients == {1, 2}
\* goroutines of the concurrent-Take scenario (SpecTake); 2N of them call
Takers == {1, 2, 3, 4}
Procs == Clients \cup Takers
\* addresses of bucket objects: one per key and one per stale reference
Addrs == 1..(Cardinality(Keys) + Cardinality(Clients))
\* identity of the purge goroutine as a lock holder
Sweeper == "purge"
NoOne == "nobody"

VARIABLES
    backend,        \* "mem" | "redis": which Storage implementation is under test
    cfgTokens,      \* Config.Tokens the storage was built from (0: left unset)
    tokens,         \* storage.tokens
    interval,       \* storage.interval
    sweepMinTTL,    \* storage.sweepMinTTL
    stopped,        \* storage.stopped (0 | 1)
    stopChan,       \* storage.stopChan: "open" | "closed" ("panic": closed twice)
    buckets,        \* storage.buckets: key -> bucket object (0: no entry)
    bucketLock,     \* storage.bucketLock: holder of the write lock, or NoOne
    heap,           \* the reachable bucket objects, by address (Free: none there)
    clock,          \* what nanoNow() returns now
    pc,             \* per goroutine: position in the operation it runs
    loc,            \* per goroutine: arguments and locals of the operation
    res,            \* per goroutine: the values the operation returns
    obs,            \* per goroutine: what the operation observed (history only)
    spc,            \* purge goroutine: position
    sloc,           \* purge goroutine: locals (now, keys left to visit)
    nops,           \* number of calls the callers have still to make
    hist,           \* history variables used to state the properties
    rec,            \* redis: the hash stored under each key (field -> value, -1: no field)
    pool,           \* redis: the connection pool
    http,           \* httplimiter: the request the middleware is serving
    avail,          \* bucket.go: one application of availableTokens (arguments, result)
    lk,             \* the locks alone: who holds and who awaits bucketLock and each bucket.lock
    took,           \* per key: the clock reading of the last Take served from its bucket (-1: none)
    ttl             \* scripttemplate.lua: one EXPIRE the script issues (interval, site, seconds)

vars == <<backend, cfgTokens, tokens, interval, sweepMinTTL, stopped, stopChan, buckets,
          bucketLock, heap, clock, pc, loc, res, obs, spc, sloc, nops, hist,
          rec, pool, http, avail, lk, took, ttl>>

\* the configuration of the storage
confv == <<backend, cfgTokens, tokens, interval, sweepMinTTL>>
\* what no step of a storage operation changes: the configuration, the
\* request of the HTTP layer that called it, and the function under test
scenv == <<lk, took, ttl>>
cfgv == <<confv, http, avail, scenv>>
purgev == <<spc, sloc, bucketLock>>
redisv == <<rec, pool>>

\* --------------------------------------------------------- uint64 helpers
U64(x) == x % Wrap
U64Sub(a, b) == (a - b) % Wrap

\* ------------------------------------------------------------- bucket.go
\* a tick that takes the remainder where the code takes the quotient
tick_rem(start, current, ival) == U64Sub(current, start) % ival

\* tick: number of whole intervals between start and current
tick(start, current, ival) == U64Sub(current, start) \div ival

\* fillRate is float64(interval) / float64(tokens); it is kept as the exact
\* ratio num/den.  den = 0 is +Inf, whose product with delta >= 1 converts to
\* a value above every max the model uses.
FillRate(ival, tok) == [num |-> ival, den |-> tok]

\* the largest n such that float64 holds every integer up to n (2^53 for the
\* 64-bit word; a quarter of the range of the model's word)
Exact == Wrap \div 4

\* distance between neighbouring float64 values at x
RECURSIVE Ulp(_, _, _)
Ulp(x, u, bound) == IF x < bound THEN u ELSE Ulp(x, 2 * u, 2 * bound)

\* float64(x) for a uint64 x: the nearest representable value, ties to even
Float64(x) ==
    LET u == Ulp(x, 1, Exact)
        q == x \div u
        r == x % u
    IN  IF 2 * r < u \/ (2 * r = u /\ q % 2 = 0) THEN q * u ELSE (q + 1) * u

availableTokens(lastTick, currentTick, max, fillRate) ==
    LET delta == Float64(U64Sub(currentTick, lastTick))
        available == IF fillRate.den = 0 THEN max + 1
                     ELSE (delta * fillRate.num) \div fillRate.den
    IN  IF available > max THEN max ELSE available

newBucket(tok, ival, now) ==
    [startTime |-> now, maxTokens |-> tok, interval |-> ival,
     fillRate |-> FillRate(ival, tok), availableTokens |-> tok,
     lastTick |-> 0]

\* reset as bucket.take computes it
takeReset_lastTick(b, currentTick) ==
    U64(b.startTime + (b.lastTick + 1) * b.interval)

takeReset(b, currentTick) ==
    U64(b.startTime + (currentTick + 1) * b.interval)

\* a refill that follows whatever tick the caller computed, older ones too
takeRefill_unordered(b, currentTick) ==
    IF b.lastTick # currentTick
    THEN [b EXCEPT !.availableTokens =
                       availableTokens(b.lastTick, currentTick, b.maxTokens, b.fillRate),
                   !.lastTick = currentTick]
    ELSE b

\* a refill that adds the new tokens to the balance instead of replacing it
takeRefill_adds(b, currentTick) ==
    IF b.lastTick < currentTick
    THEN [b EXCEPT !.availableTokens = U64(@ +
                       availableTokens(b.lastTick, currentTick, b.maxTokens, b.fillRate)),
                   !.lastTick = currentTick]
    ELSE b

\* the critical section of bucket.take: refill if a tick passed, then consume
takeRefill(b, currentTick) ==
    IF b.lastTick < currentTick
    THEN [b EXCEPT !.availableTokens =
                       availableTokens(b.lastTick, currentTick, b.maxTokens, b.fillRate),
                   !.lastTick = currentTick]
    ELSE b

\* a consume step that does not look at the balance first
takeConsume_unchecked(b) ==
    [b EXCEPT !.availableTokens = U64(b.availableTokens - 1)]

takeConsume(b) ==
    IF b.availableTokens > 0
    THEN [b EXCEPT !.availableTokens = b.availableTokens - 1]
    ELSE b

\* ---------------------------------------------------------- constructors
NewMemStorage_tokens(n) == IF n > 0 THEN n ELSE 1

\* ------------------------------------------------------------ plumbing
NoLoc == [op |-> "none", key |-> "a", tokens |-> 0, interval |-> 0,
          b |-> 0, now |-> 0, tick |-> 0, limit |-> 0, reset |-> 0]
NoRes == [limit |-> 0, remaining |-> 0, reset |-> 0, ok |-> FALSE, err |-> "none"]
NoObs == [afterClose |-> FALSE, first |-> FALSE, reached |-> FALSE,
          refill |-> FALSE, delta |-> 0, pre |-> 0, burstSum |-> -1,
          prevDone |-> 0, prevSampled |-> 0, neverSeen |-> FALSE,
          afterSet |-> -1, afterBurst |-> -1, bursted |-> FALSE,
          afterSweep |-> FALSE, fresh |-> FALSE, replyLen |-> -1,
          mutated |-> FALSE]
NoBucketHist == [bursted |-> FALSE, burstSum |-> -1, lastReset |-> 0, lastOp |-> 0,
                 fresh |-> FALSE]
NoSloc == [now |-> 0, todo |-> {}]

\* An address with no object.  Go frees a bucket once neither the registry nor
\* a goroutine refers to it; what is left of it can no longer be observed.
Free == [startTime |-> 0, maxTokens |-> 0, interval |-> 0,
         fillRate |-> FillRate(0, 0), availableTokens |-> 0, lastTick |-> 0]
Allocated == {a \in Addrs : heap[a] # Free}
Live(bk, lc, a) == (\E k \in Keys : bk[k] = a) \/ (\E p \in Procs : lc[p].b = a)
\* the objects still reachable from registry bk and locals lc
Reach(h, bk, lc) == [a \in Addrs |-> IF Live(bk, lc, a) THEN h[a] ELSE Free]
ReachHist(hb, bk, lc) == [a \in Addrs |-> IF Live(bk, lc, a) THEN hb[a] ELSE NoBucketHist]
NewAddr == CHOOSE a \in Addrs : heap[a] = Free /\ \A b \in Addrs : heap[b] = Free => a <= b
ErrRes(e) == [NoRes EXCEPT !.err = e]

\* a result is handed to the caller before anything else is scheduled
Returning == \E p \in Procs : pc[p] = "ret"

\* an operation is called: its arguments, and whether Close had returned by
\* then.  The goroutines are interchangeable: the call goes to the free one
\* with the smallest number.
Enter(p, op, k, tok, ival) ==
    /\ pc[p] = "idle"
    /\ \A q \in Procs : q < p => pc[q] # "idle"
    /\ ~Returning
    /\ nops > 0
    /\ nops' = nops - 1
    /\ loc' = [loc EXCEPT ![p] = [NoLoc EXCEPT !.op = op, !.key = k,
                                              !.tokens = tok, !.interval = ival]]

EnterObs(p) == [NoObs EXCEPT !.afterClose = hist.closeReturned]

\* goroutine p is at `where` and is the one to run
At(p, where) == pc[p] = where /\ ~Returning
Goto(p, where) == pc' = [pc EXCEPT ![p] = where]

\* the operation returns to a caller that keeps the result and is finished
\* (the 2N goroutines of the concurrent-Take scenario each report theirs);
\* hist.kept is the bag of the results reported, with the instant each sampled
Keep(p) ==
    /\ pc[p] = "ret"
    /\ Goto(p, "done")
    /\ loc' = [loc EXCEPT ![p] = NoLoc]
    /\ res' = [res EXCEPT ![p] = NoRes]
    /\ obs' = [obs EXCEPT ![p] = NoObs]
    /\ heap' = Reach(heap, buckets, loc')
    /\ hist' = [hist EXCEPT
                  !.kept = @ (+) SetToBag({[res |-> res[p], now |-> loc[p].now,
                                            b |-> loc[p].b]}),
                  !.bucket = ReachHist(@, buckets, loc')]
    /\ UNCHANGED <<cfgv, purgev, redisv, stopped, stopChan, buckets, clock, nops>>

\* the operation returns to its caller
Return(p) ==
    /\ pc[p] = "ret"
    /\ Goto(p, "idle")
    /\ loc' = [loc EXCEPT ![p] = NoLoc]
    /\ res' = [res EXCEPT ![p] = NoRes]
    /\ obs' = [obs EXCEPT ![p] = NoObs]
    /\ heap' = Reach(heap, buckets, loc')
    /\ hist' = [hist EXCEPT
                  !.closeReturned = @ \/ (loc[p].op = "Close" /\ res[p].err = "nil"),
                  !.bucket = ReachHist(@, buckets, loc')]
    /\ UNCHANGED <<cfgv, purgev, redisv, stopped, stopChan, buckets, clock, nops>>

\* nanoNow() advances
Tick ==
    /\ ~Returning
    /\ clock < MaxTime
    /\ clock' = clock + 1
    /\ UNCHANGED <<cfgv, purgev, redisv, stopped, stopChan, buckets, heap,
                   pc, loc, res, obs, nops, hist>>

\* allocate a bucket object and store it under key k (storage.buckets[key] =
\* bucket); the object it replaces stays only while a goroutine holds it
Install(k, bkt) ==
    LET bk == [buckets EXCEPT ![k] = NewAddr]
    IN  /\ buckets' = bk
        /\ heap' = Reach([heap EXCEPT ![NewAddr] = bkt], bk, loc)
InstallHist(k) ==
    ReachHist([hist.bucket EXCEPT ![NewAddr] = [NoBucketHist EXCEPT !.lastOp = clock, !.fresh = TRUE]],
              [buckets EXCEPT ![k] = NewAddr], loc)

\* ---------------------------------------------------- MemStorage.Take
\* memstorage.go 139-142: the stopped flag is read once, on entry
TakeCall(p, k) ==
    /\ backend = "mem"
    /\ Enter(p, "Take", k, 0, 0)
    /\ obs' = [obs EXCEPT ![p] = EnterObs(p)]
    /\ IF stopped = 1
       THEN /\ res' = [res EXCEPT ![p] = ErrRes("ErrStopped")]
            /\ Goto(p, "ret")
       ELSE /\ res' = res
            /\ Goto(p, "take_rlock")
    /\ UNCHANGED <<purgev, redisv, stopped, stopChan, buckets, heap, clock, hist>>

\* Take called directly by a client of the storage
TakeStart(p, k) == TakeCall(p, k) /\ UNCHANGED cfgv

\* memstorage.go 145-151: look the bucket up under the read lock
TakeRLock(p) ==
    /\ At(p, "take_rlock")
    /\ bucketLock = NoOne
    /\ IF buckets[loc[p].key] # 0
       THEN /\ loc' = [loc EXCEPT ![p].b = buckets[loc[p].key]]
            /\ Goto(p, "take_sample")
       ELSE /\ loc' = loc
            /\ Goto(p, "take_lock")
    /\ UNCHANGED <<cfgv, purgev, redisv, stopped, stopChan, buckets, heap, clock,
                   res, obs, nops, hist>>

\* the bucket is created and stored under the key (memstorage.go 162-163)
TakeCreate(p) ==
    /\ Install(loc[p].key, newBucket(tokens, interval, clock))
    /\ loc' = [loc EXCEPT ![p].b = NewAddr]
    /\ obs' = [obs EXCEPT ![p].first = TRUE,
                          ![p].neverSeen = ~hist.seen[loc[p].key],
                          ![p].afterSweep = hist.swept[loc[p].key],
                          ![p].mutated = TRUE]
    /\ hist' = [hist EXCEPT !.seen[loc[p].key] = TRUE,
                            !.swept[loc[p].key] = FALSE,
                            !.lastSet[loc[p].key] = -1,
                            !.lastBurst[loc[p].key] = -1,
                            !.bucket = InstallHist(loc[p].key)]

\* a Take that does not look again once it holds the write lock
TakeLock_norecheck(p) ==
    /\ At(p, "take_lock")
    /\ bucketLock = NoOne
    /\ TakeCreate(p)
    /\ Goto(p, "take_sample")
    /\ UNCHANGED <<cfgv, purgev, redisv, stopped, stopChan, clock, res, nops>>

\* memstorage.go 154-165: write lock, re-check, create the bucket if still absent
TakeLock(p) ==
    /\ At(p, "take_lock")
    /\ bucketLock = NoOne
    /\ IF buckets[loc[p].key] # 0
       THEN /\ loc' = [loc EXCEPT ![p].b = buckets[loc[p].key]]
            /\ UNCHANGED <<heap, buckets, obs, hist>>
       ELSE TakeCreate(p)
    /\ Goto(p, "take_sample")
    /\ UNCHANGED <<cfgv, purgev, redisv, stopped, stopChan, clock, res, nops>>

\* bucket.take, before b.lock.Lock(): now, currentTick, tokens and reset
TakeSample(p) ==
    LET b == heap[loc[p].b]
        t == tick(b.startTime, clock, b.interval)
        r == takeReset(b, t)
    IN  /\ At(p, "take_sample")
        /\ loc' = [loc EXCEPT ![p].now = clock, ![p].tick = t,
                              ![p].limit = b.maxTokens, ![p].reset = r]
        /\ obs' = [obs EXCEPT ![p].prevSampled = hist.bucket[loc[p].b].lastReset]
        /\ hist' = [hist EXCEPT !.bucket[loc[p].b].lastReset = r]
        /\ Goto(p, "take_crit")
        /\ UNCHANGED <<cfgv, purgev, redisv, stopped, stopChan, buckets, heap,
                       clock, res, nops>>

\* bucket.take, from b.lock.Lock() to b.lock.Unlock()
TakeDecrement(p) ==
    LET a  == loc[p].b
        k  == loc[p].key
        b  == heap[a]
        b1 == takeRefill(b, loc[p].tick)
        b2 == takeConsume(b1)
        ok == b1.availableTokens > 0
    IN  /\ At(p, "take_crit")
        /\ heap' = [heap EXCEPT ![a] = b2]
        /\ res' = [res EXCEPT ![p] =
                      [limit |-> loc[p].limit,
                       remaining |-> IF ok THEN b2.availableTokens ELSE 0,
                       reset |-> loc[p].reset, ok |-> ok, err |-> "nil"]]
        /\ obs' = [obs EXCEPT ![p].reached = TRUE,
                              ![p].refill = (b.lastTick < loc[p].tick),
                              ![p].delta = loc[p].tick - b.lastTick,
                              ![p].pre = b.availableTokens,
                              ![p].burstSum = hist.bucket[a].burstSum,
                              ![p].bursted = hist.bucket[a].bursted,
                              ![p].fresh = hist.bucket[a].fresh,
                              ![p].prevDone = hist.lastDone[k],
                              ![p].mutated = TRUE]
        /\ hist' = [hist EXCEPT
                      !.lastDone[k] = loc[p].reset,
                      !.lastSet[k] = IF buckets[k] = a THEN -1 ELSE @,
                      !.lastBurst[k] = IF buckets[k] = a THEN -1 ELSE @,
                      !.bucket[a].burstSum = -1,
                      !.bucket[a].lastOp = clock,
                      !.bucket[a].fresh = FALSE,
                      !.bucket[a].bursted =
                          IF b.lastTick < loc[p].tick THEN FALSE ELSE @]
        /\ Goto(p, "ret")
        /\ UNCHANGED <<purgev, redisv, stopped, stopChan, buckets, clock, loc, nops>>

TakeCrit(p) == TakeDecrement(p) /\ UNCHANGED cfgv

\* the same step, keeping the clock reading of the Take as the latest one
\* served from the bucket installed under its key
TakeCritAt(p) ==
    /\ TakeDecrement(p)
    /\ took' = [took EXCEPT ![loc[p].key] =
                    IF buckets[loc[p].key] = loc[p].b THEN loc[p].now ELSE @]
    /\ UNCHANGED <<confv, http, avail, lk, ttl>>

\* ----------------------------------------------------- MemStorage.Get
\* memstorage.go 172-175
GetStart(p, k) ==
    /\ backend = "mem"
    /\ Enter(p, "Get", k, 0, 0)
    /\ obs' = [obs EXCEPT ![p] = EnterObs(p)]
    /\ IF stopped = 1
       THEN /\ res' = [res EXCEPT ![p] = ErrRes("ErrStopped")]
            /\ Goto(p, "ret")
       ELSE /\ res' = res
            /\ Goto(p, "get_rlock")
    /\ UNCHANGED <<cfgv, purgev, redisv, stopped, stopChan, buckets, heap, clock, hist>>

\* a Get that creates the bucket it does not find, as Take does
GetRLock_creates(p) ==
    /\ At(p, "get_rlock")
    /\ bucketLock = NoOne
    /\ buckets[loc[p].key] = 0
    /\ Install(loc[p].key, newBucket(tokens, interval, clock))
    /\ hist' = [hist EXCEPT !.bucket = InstallHist(loc[p].key)]
    /\ res' = [res EXCEPT ![p] = ErrRes("nil")]
    /\ obs' = [obs EXCEPT ![p].neverSeen = ~hist.seen[loc[p].key]]
    /\ Goto(p, "ret")
    /\ UNCHANGED <<cfgv, purgev, redisv, stopped, stopChan, clock, loc, nops>>

\* memstorage.go 177-184: look the bucket up under the read lock; zeros if absent
GetRLock(p) ==
    /\ At(p, "get_rlock")
    /\ bucketLock = NoOne
    /\ IF buckets[loc[p].key] # 0
       THEN /\ loc' = [loc EXCEPT ![p].b = buckets[loc[p].key]]
            /\ UNCHANGED <<res, obs>>
            /\ Goto(p, "get_read")
       ELSE /\ loc' = loc
            /\ res' = [res EXCEPT ![p] = ErrRes("nil")]
            /\ obs' = [obs EXCEPT ![p].neverSeen = ~hist.seen[loc[p].key]]
            /\ Goto(p, "ret")
    /\ UNCHANGED <<cfgv, purgev, redisv, stopped, stopChan, buckets, heap, clock,
                   nops, hist>>

\* bucket.get
get(b) == [NoRes EXCEPT !.limit = b.maxTokens, !.remaining = b.availableTokens,
                        !.err = "nil"]

\* memstorage.go 180: bucket.get() on the bucket found, under its lock
GetRead(p) ==
    LET a == loc[p].b
    IN  /\ At(p, "get_read")
        /\ res' = [res EXCEPT ![p] = get(heap[a])]
        /\ obs' = [obs EXCEPT ![p].reached = TRUE,
                              ![p].afterSet = IF buckets[loc[p].key] = a
                                              THEN hist.lastSet[loc[p].key]
                                              ELSE -1,
                              ![p].afterBurst = IF buckets[loc[p].key] = a
                                                THEN hist.lastBurst[loc[p].key]
                                                ELSE -1]
        /\ hist' = [hist EXCEPT !.bucket[a].lastOp = clock]
        /\ Goto(p, "ret")
        /\ UNCHANGED <<cfgv, purgev, redisv, stopped, stopChan, buckets, heap,
                       clock, loc, nops>>

\* ----------------------------------------------------- MemStorage.Set
\* memstorage.go 188-194: no look at the stopped flag; a new bucket replaces the entry
Set(p, k, tok, ival) ==
    /\ backend = "mem"
    /\ Enter(p, "Set", k, tok, ival)
    /\ bucketLock = NoOne
    /\ Install(k, newBucket(tok, ival, clock))
    /\ res' = [res EXCEPT ![p] = ErrRes("nil")]
    /\ obs' = [obs EXCEPT ![p] = [EnterObs(p) EXCEPT !.mutated = TRUE]]
    /\ hist' = [hist EXCEPT !.seen[k] = TRUE,
                            !.lastSet[k] = tok,
                            !.lastBurst[k] = -1,
                            !.swept[k] = FALSE,
                            !.bucket = InstallHist(k)]
    /\ Goto(p, "ret")
    /\ UNCHANGED <<cfgv, purgev, redisv, stopped, stopChan, clock>>

\* --------------------------------------------------- MemStorage.Burst
\* the addition of memstorage.go 205
burstAdd_capped(b, tok) ==
    [b EXCEPT !.availableTokens =
                  IF b.availableTokens + tok > b.maxTokens THEN b.maxTokens
                  ELSE b.availableTokens + tok]

\* an addition that also starts the bucket's refill history over
burstAdd_reset(b, tok) ==
    [b EXCEPT !.availableTokens = U64(b.availableTokens + tok), !.lastTick = 0]

burstAdd(b, tok) == [b EXCEPT !.availableTokens = U64(b.availableTokens + tok)]

\* memstorage.go 198-215, again without the stopped flag.  Found: the tokens
\* are added under the bucket lock (201-207).  Absent: a bucket of capacity
\* storage.tokens+tokens is installed (211-214).
\* memstorage.go 211: the capacity of the bucket Burst creates, in uint64
burstCapacity_configured(tok) == tokens
burstCapacity(tok) == U64(tokens + tok)

Burst(p, k, tok) ==
    LET a == buckets[k]
    IN  /\ backend = "mem"
        /\ Enter(p, "Burst", k, tok, 0)
        /\ bucketLock = NoOne
        /\ IF a # 0
           THEN /\ heap' = [heap EXCEPT ![a] = burstAdd(heap[a], tok)]
                /\ buckets' = buckets
                /\ hist' = [hist EXCEPT
                              !.lastSet[k] = -1,
                              !.lastBurst[k] = -1,
                              !.bucket[a].bursted = TRUE,
                              !.bucket[a].lastOp = clock,
                              !.bucket[a].fresh = FALSE,
                              !.bucket[a].burstSum = heap[a].availableTokens + tok]
           ELSE /\ Install(k, newBucket(burstCapacity(tok), interval, clock))
                /\ hist' = [hist EXCEPT !.seen[k] = TRUE,
                                        !.lastSet[k] = -1,
                                        !.lastBurst[k] = tok,
                                        !.swept[k] = FALSE,
                                        !.bucket = InstallHist(k)]
        /\ res' = [res EXCEPT ![p] = ErrRes("nil")]
        /\ obs' = [obs EXCEPT ![p] = [EnterObs(p) EXCEPT !.mutated = TRUE,
                                                         !.first = (a = 0)]]
        /\ Goto(p, "ret")
        /\ UNCHANGED <<cfgv, purgev, redisv, stopped, stopChan, clock>>

\* --------------------------------------------------- MemStorage.Close
\* a swap that does not compare: every caller wins
CompareAndSwapUint32_blind(v, old) == TRUE

\* atomic.CompareAndSwapUint32(&v, old, new) reports whether v was old
CompareAndSwapUint32(v, old) == v = old

\* close(ch): closing a channel that is already closed panics
close(ch) == IF ch = "open" THEN "closed" ELSE "panic"

\* memstorage.go 94-99: CompareAndSwapUint32(&storage.stopped, 0, 1); the one
\* caller that wins closes storage.stopChan
CloseCAS(p) ==
    /\ backend = "mem"
    /\ Enter(p, "Close", "a", 0, 0)
    /\ obs' = [obs EXCEPT ![p] = EnterObs(p)]
    /\ IF CompareAndSwapUint32(stopped, 0)
       THEN /\ stopped' = 1
            /\ stopChan' = close(stopChan)
            /\ res' = res
            /\ Goto(p, "close_clear")
       ELSE /\ UNCHANGED <<stopped, stopChan>>
            /\ res' = [res EXCEPT ![p] = ErrRes("ErrStoppedFlag")]
            /\ Goto(p, "ret")
    /\ UNCHANGED <<cfgv, purgev, redisv, buckets, heap, clock, hist>>

\* memstorage.go 101-106: every entry is deleted under the write lock
CloseClear(p) ==
    /\ At(p, "close_clear")
    /\ bucketLock = NoOne
    /\ buckets' = [k \in Keys |-> 0]
    /\ heap' = Reach(heap, buckets', loc)
    /\ res' = [res EXCEPT ![p] = ErrRes("nil")]
    /\ obs' = [obs EXCEPT ![p].mutated = TRUE]
    /\ hist' = [hist EXCEPT !.lastSet = [k \in Keys |-> -1],
                            !.lastBurst = [k \in Keys |-> -1],
                            !.bucket = ReachHist(@, buckets', loc)]
    /\ Goto(p, "ret")
    /\ UNCHANGED <<cfgv, purgev, redisv, stopped, stopChan, clock, loc, nops>>

\* --------------------------------------------------- MemStorage.purge
\* memstorage.go 117-118: the stop channel is closed, the goroutine returns
SweepStop ==
    /\ spc = "wait"
    /\ ~Returning
    /\ backend = "mem"
    /\ stopChan = "closed"
    /\ spc' = "exited"
    /\ UNCHANGED <<cfgv, redisv, sloc, bucketLock, stopped, stopChan, buckets,
                   heap, clock, pc, loc, res, obs, nops, hist>>

\* memstorage.go 119-123: the ticker fires; write lock, then now := nanoNow().
\* (A pass over an empty map changes nothing and is left out.)
SweepLock ==
    /\ spc = "wait"
    /\ ~Returning
    /\ backend = "mem"
    /\ bucketLock = NoOne
    /\ \E k \in Keys : buckets[k] # 0
    /\ bucketLock' = Sweeper
    /\ sloc' = [now |-> clock, todo |-> {k \in Keys : buckets[k] # 0}]
    /\ spc' = "iter"
    /\ UNCHANGED <<cfgv, redisv, stopped, stopChan, buckets, heap, clock,
                   pc, loc, res, obs, nops, hist>>

\* memstorage.go 126: the instant of the bucket's last refill
lastTime(b) == U64(b.startTime + b.lastTick * b.interval)

\* a test that lets a bucket live one nanosecond longer
expired_lenient(now, b) == U64Sub(now, lastTime(b)) > sweepMinTTL + 1

\* memstorage.go 129
expired(now, b) == U64Sub(now, lastTime(b)) > sweepMinTTL

\* memstorage.go 124-133: one iteration of the range loop (map order is
\* arbitrary); after the last one the write lock is released
SweepIter(k) ==
    LET a == buckets[k]
        left == sloc.todo \ {k}
    IN  /\ spc = "iter"
        /\ ~Returning
        /\ k \in sloc.todo
        /\ IF expired(sloc.now, heap[a])
           THEN /\ buckets' = [buckets EXCEPT ![k] = 0]
                /\ heap' = Reach(heap, buckets', loc)
                /\ hist' = [hist EXCEPT !.lastSet[k] = -1,
                                        !.lastBurst[k] = -1,
                                        !.swept[k] = TRUE,
                                        !.bucket = ReachHist(@, buckets', loc)]
           ELSE UNCHANGED <<buckets, heap, hist>>
        /\ IF left = {}
           THEN /\ bucketLock' = NoOne
                /\ spc' = "wait"
                /\ sloc' = NoSloc
           ELSE /\ sloc' = [sloc EXCEPT !.todo = left]
                /\ UNCHANGED <<bucketLock, spc>>
        /\ UNCHANGED <<cfgv, redisv, stopped, stopChan, clock, pc, loc,
                       res, obs, nops>>

\* ------------------------------------------------------- RedisStorage
\* field names of the Go client (redisstorage.go 13-17)
fieldInterval == "i"
fieldMaxTokens == "m"
fieldCurrentTokens == "t"
\* field names of the script (scripttemplate.lua 7-11)
FIELD_START == "s"
FIELD_TICK == "t"
FIELD_INTERVAL == "i"
FIELD_CURRENT_TOKENS == "k"
FIELD_MAX_TOKENS == "m"

Fields == {"s", "t", "i", "k", "m"}
NoRecord == [f \in Fields |-> -1]
Exists(k) == rec[k] # NoRecord

\* NewRSWithPool: the configured capacity is kept only above 9
NewRSWithPool_tokens(n) == IF n > 9 THEN n ELSE 1

\* HSET key f1 v1 f2 v2 f3 v3
HSET3(h, f1, v1, f2, v2, f3, v3) == [h EXCEPT ![f1] = v1, ![f2] = v2, ![f3] = v3]
\* HINCRBY key f n: a missing field counts as 0; the server refuses (and the
\* client never reads the refusal) when the field, the increment or the sum
\* is not a signed 64-bit integer
HINCRBY(h, f, n) ==
    LET old == IF h[f] = -1 THEN 0 ELSE h[f]
    IN  IF old > MaxInt64 \/ n > MaxInt64 \/ old + n > MaxInt64 THEN h
        ELSE [h EXCEPT ![f] = old + n]
\* HMGET key f1 f2: the two values as stored (-1: nil)
HMGET2(h, f1, f2) == <<h[f1], h[f2]>>
\* redis.Int64s on one item of the reply: nil stays 0; the decimal string is
\* parsed with strconv.ParseInt(s, 10, 64), which fails above the largest int64
ParseInt64(v) == IF v = -1 THEN [ok |-> TRUE, v |-> 0]
                 ELSE IF v > MaxInt64 THEN [ok |-> FALSE, v |-> 0]
                 ELSE [ok |-> TRUE, v |-> v]

\* The script cannot run: `local tick(start, current, interval)` and
\* `local timeToLive(interval)` (scripttemplate.lua 50, 60) are not Lua, and
\* hashGetAll calls redis.call(CMD_HGETALL, ...) with a name never defined
\* (line 25; the constant is RCMD_HGETALL).  EVAL answers with an error and
\* writes nothing.
ScriptRuns == FALSE

\* entering Take/Get/Set/Burst: the stopped flag, and for Take the clock
RedisStart(p, op, k, tok, ival) ==
    /\ backend = "redis"
    /\ Enter(p, op, k, tok, ival)
    /\ obs' = [obs EXCEPT ![p] = EnterObs(p)]
    /\ IF stopped = 1
       THEN /\ res' = [res EXCEPT ![p] = ErrRes("ErrStopped")]
            /\ Goto(p, "ret")
       ELSE /\ res' = res
            /\ Goto(p, "r_conn")
    /\ UNCHANGED <<cfgv, purgev, redisv, stopped, stopChan, buckets, heap, clock, hist>>

RedisTakeStart(p, k) == RedisStart(p, "Take", k, 0, 0)
RedisGetStart(p, k) == RedisStart(p, "Get", k, 0, 0)
RedisSetStart(p, k, tok, ival) == RedisStart(p, "Set", k, tok, ival)
RedisBurstStart(p, k, tok) == RedisStart(p, "Burst", k, tok, 0)

\* rs.pool.GetContext(ctx), then conn.Err(): no connection; a connection that
\* is not usable (returned from before `defer conn.Close()`); a usable one
RedisConn(p, outcome) ==
    /\ At(p, "r_conn")
    /\ pool.closed => outcome = "pool"
    /\ CASE outcome = "pool" ->
              /\ res' = [res EXCEPT ![p] = ErrRes("failed to get connection from pool")]
              /\ pool' = pool
              /\ Goto(p, "ret")
         [] outcome = "unusable" ->
              /\ res' = [res EXCEPT ![p] = ErrRes("connection not usable")]
              /\ pool' = [pool EXCEPT !.active = @ + 1]
              /\ Goto(p, "ret")
         [] outcome = "ok" ->
              /\ res' = res
              /\ pool' = [pool EXCEPT !.active = @ + 1]
              /\ Goto(p, "r_do")
    /\ UNCHANGED <<cfgv, purgev, rec, stopped, stopChan, buckets, heap, clock,
                   loc, obs, nops, hist>>

\* RedisStorage.Take from script.Do on: the script fails, conn.Close() runs
RedisTakeDo(p) ==
    /\ At(p, "r_do")
    /\ loc[p].op = "Take"
    /\ ~ScriptRuns
    /\ res' = [res EXCEPT ![p] = ErrRes("script error")]
    /\ obs' = [obs EXCEPT ![p].first = ~Exists(loc[p].key),
                          ![p].neverSeen = ~hist.seen[loc[p].key],
                          ![p].afterSet = hist.lastSet[loc[p].key]]
    /\ pool' = [pool EXCEPT !.active = @ - 1]
    /\ Goto(p, "ret")
    /\ UNCHANGED <<cfgv, purgev, rec, stopped, stopChan, buckets, heap, clock,
                   loc, nops, hist>>

\* what a server may answer to EVAL: arrays of three to five integers
ReplyLens == {3, 4, 5}
ReplyVals == {0, 1, 2}
Replies == UNION {[1..n -> ReplyVals] : n \in ReplyLens}

\* memstorage_test.go 432-437: the length test sets err and does not return;
\* response[0..3] are then read, which panics on a shorter reply
takeReply(r) ==
    IF Len(r) < 4
    THEN [panic |-> TRUE, res |-> NoRes]
    ELSE [panic |-> FALSE,
          res |-> [limit |-> U64(r[1]), remaining |-> U64(r[2]), reset |-> U64(r[3]),
                   ok |-> r[4] = 1,
                   err |-> IF Len(r) # 4 THEN "expected 4 values in response"
                           ELSE "nil"]]

\* RedisStorage.Take from script.Do on, when EVAL answers with an array: the
\* deferred conn.Close() runs whether Take returns or panics
RedisTakeReply(p, r) ==
    LET o == takeReply(r)
    IN  /\ At(p, "r_do")
        /\ loc[p].op = "Take"
        /\ res' = [res EXCEPT ![p] = o.res]
        /\ obs' = [obs EXCEPT ![p].reached = TRUE, ![p].replyLen = Len(r)]
        /\ pool' = [pool EXCEPT !.active = @ - 1]
        /\ Goto(p, IF o.panic THEN "panic" ELSE "ret")
        /\ UNCHANGED <<cfgv, purgev, rec, stopped, stopChan, buckets, heap, clock,
                       loc, nops, hist>>

\* RedisStorage.Get: HMGET key m t
RedisGetReply(h) ==
    LET r == HMGET2(h, fieldMaxTokens, fieldCurrentTokens)
        m == ParseInt64(r[1])
        t == ParseInt64(r[2])
    IN  IF m.ok /\ t.ok
        THEN [NoRes EXCEPT !.limit = m.v, !.remaining = t.v, !.err = "nil"]
        ELSE ErrRes("failed to get key fields")

RedisGetDo(p) ==
    LET k == loc[p].key
    IN  /\ At(p, "r_do")
        /\ loc[p].op = "Get"
        /\ res' = [res EXCEPT ![p] = RedisGetReply(rec[k])]
        /\ obs' = [obs EXCEPT ![p].reached = TRUE,
                              ![p].neverSeen = ~hist.seen[k],
                              ![p].afterSet = hist.lastSet[k]]
        /\ pool' = [pool EXCEPT !.active = @ - 1]
        /\ Goto(p, "ret")
        /\ UNCHANGED <<cfgv, purgev, rec, stopped, stopChan, buckets, heap, clock,
                       loc, nops, hist>>

\* RedisStorage.Set: HSET key t tokens m tokens i interval, the numbers written
\* in decimal by strconv.FormatUint / FormatInt.  (The EXPIRE that follows
\* asks for 24 hours or more and removes nothing within a run.)
RedisSetWrite(h, tok, ival) ==
    HSET3(h, fieldCurrentTokens, tok, fieldMaxTokens, tok, fieldInterval, ival)

\* the two commands are buffered by Send and reach the server when the
\* deferred conn.Close() flushes the connection
RedisSetDo(p) ==
    LET k == loc[p].key
    IN  /\ At(p, "r_do")
        /\ loc[p].op = "Set"
        /\ rec' = [rec EXCEPT ![k] = RedisSetWrite(rec[k], loc[p].tokens, loc[p].interval)]
        /\ res' = [res EXCEPT ![p] = ErrRes("nil")]
        /\ obs' = [obs EXCEPT ![p].mutated = TRUE]
        /\ hist' = [hist EXCEPT !.seen[k] = TRUE, !.lastSet[k] = loc[p].tokens]
        /\ pool' = [pool EXCEPT !.active = @ - 1]
        /\ Goto(p, "ret")
        /\ UNCHANGED <<cfgv, purgev, stopped, stopChan, buckets, heap, clock,
                       loc, nops>>

\* RedisStorage.Burst: HINCRBY key t tokens, flushed by conn.Close()
RedisBurstDo(p) ==
    LET k == loc[p].key
    IN  /\ At(p, "r_do")
        /\ loc[p].op = "Burst"
        /\ rec' = [rec EXCEPT ![k] = HINCRBY(rec[k], fieldCurrentTokens, loc[p].tokens)]
        /\ res' = [res EXCEPT ![p] = ErrRes("nil")]
        /\ obs' = [obs EXCEPT ![p].mutated = TRUE]
        /\ hist' = [hist EXCEPT !.seen[k] = TRUE, !.lastSet[k] = -1]
        /\ pool' = [pool EXCEPT !.active = @ - 1]
        /\ Goto(p, "ret")
        /\ UNCHANGED <<cfgv, purgev, stopped, stopChan, buckets, heap, clock,
                       loc, nops>>

\* RedisStorage.Close: the caller that wins the CAS closes the pool
RedisClose(p) ==
    /\ backend = "redis"
    /\ Enter(p, "Close", "a", 0, 0)
    /\ IF CompareAndSwapUint32(stopped, 0)
       THEN /\ stopped' = 1
            /\ pool' = [pool EXCEPT !.closed = TRUE, !.closes = @ + 1]
            /\ obs' = [obs EXCEPT ![p] = [EnterObs(p) EXCEPT !.mutated = TRUE]]
       ELSE /\ UNCHANGED <<stopped, pool>>
            /\ obs' = [obs EXCEPT ![p] = EnterObs(p)]
    /\ res' = [res EXCEPT ![p] = ErrRes("nil")]
    /\ Goto(p, "ret")
    /\ UNCHANGED <<cfgv, purgev, rec, stopChan, buckets, heap, clock, hist>>

\* --------------------------------------------------- LimiterMiddleware
\* the response headers the middleware sets (-1: not set)
NoHeader == [limit |-> -1, remaining |-> -1, reset |-> -1, retry |-> -1]
\* one request: where its handler is, whether the key function failed, the
\* number of Take calls made for it, what Take returned, the status and the
\* headers written, the number of times the wrapped handler was invoked
NoHttp == [pc |-> "idle", keyErr |-> FALSE, key |-> "a", takes |-> 0,
           got |-> NoRes, status |-> 0, header |-> NoHeader, served |-> 0]

\* the goroutine that serves the requests
Handler == CHOOSE p \in Clients : \A q \in Clients : p <= q

\* time.Unix(0, int64(reset)).UTC().Format(time.RFC822): "02 Jan 06 15:04 MST"
\* keeps the minute and drops what is below it
RFC822(t) == (t \div 1000000000) \div 60

\* a handler that lets the request through whatever ok says
HandleTake_lenient(r) ==
    IF r.err # "nil"
    THEN [status |-> 500, header |-> NoHeader, served |-> 0]
    ELSE [status |-> 200, served |-> 1,
          header |-> [limit |-> r.limit, remaining |-> r.remaining,
                      reset |-> RFC822(r.reset), retry |-> -1]]

\* part_001 91-108: what Handle does with the values Take returned
HandleTake(r) ==
    IF r.err # "nil"
    THEN [status |-> 500, header |-> NoHeader, served |-> 0]
    ELSE LET h == [limit |-> r.limit, remaining |-> r.remaining,
                   reset |-> RFC822(r.reset), retry |-> -1]
         IN  IF ~r.ok
             THEN [status |-> 429, served |-> 0,
                   header |-> [h EXCEPT !.retry = RFC822(r.reset)]]
             ELSE [status |-> 200, served |-> 1, header |-> h]

\* part_001 84-88: a request arrives and the key function runs; on its error
\* the response is 500 and the handler returns
HttpKeyFunc(outcome) ==
    /\ http.pc \in {"idle", "done"}
    /\ pc[Handler] = "idle"
    /\ ~Returning
    /\ IF outcome = "err"
       THEN http' = [NoHttp EXCEPT !.pc = "done", !.keyErr = TRUE, !.status = 500]
       ELSE http' = [NoHttp EXCEPT !.pc = "take"]
    /\ UNCHANGED <<confv, avail, scenv, purgev, redisv, stopped, stopChan, buckets, heap,
                   clock, pc, loc, res, obs, nops, hist>>

\* part_001 90: lm.storage.Take(ctx, key)
HttpTake ==
    /\ http.pc = "take"
    /\ TakeCall(Handler, http.key)
    /\ http' = [http EXCEPT !.pc = "wait", !.takes = @ + 1]
    /\ UNCHANGED <<confv, avail, scenv>>

\* part_001 91-108: Take has returned; the response is written and, when the
\* request is let through, the wrapped handler is invoked
HttpRespond ==
    LET r == res[Handler]
        o == HandleTake(r)
    IN  /\ http.pc = "wait"
        /\ pc[Handler] = "ret"
        /\ http' = [http EXCEPT !.pc = "done", !.got = r, !.status = o.status,
                                !.header = o.header, !.served = @ + o.served]
        /\ Goto(Handler, "idle")
        /\ loc' = [loc EXCEPT ![Handler] = NoLoc]
        /\ res' = [res EXCEPT ![Handler] = NoRes]
        /\ obs' = [obs EXCEPT ![Handler] = NoObs]
        /\ heap' = Reach(heap, buckets, loc')
        /\ hist' = [hist EXCEPT !.bucket = ReachHist(@, buckets, loc')]
        /\ UNCHANGED <<confv, avail, scenv, purgev, redisv, stopped, stopChan, buckets,
                       clock, nops>>

\* a call made on the storage from outside a request
Outside(p) == p = Handler => http.pc \in {"idle", "done"}

\* ------------------------------------------------ availableTokens alone
\* the arguments the function is applied to: ticks near 0, around the largest
\* exactly convertible integer and at the end of the range; capacities; fill
\* rates as exact ratios (finite, and small enough for the product to stay in
\* the range of uint64)
AvailTicks == {0, 1, 2, 4, Exact, Exact + 1, Wrap - 1}
AvailMaxes == {0, 1, 2, Wrap - 1}
AvailRates == {FillRate(0, 1), FillRate(1, 2), FillRate(1, 1)}
NoAvail == [lastTick |-> 0, currentTick |-> 0, max |-> 0,
            fillRate |-> FillRate(0, 1), out |-> -1]

\* bucket_test.go 111-117: availableTokens(c.last, c.current, c.max, c.fillRate)
AvailApply ==
    /\ avail.out = -1
    /\ avail' = [avail EXCEPT !.out = availableTokens(avail.lastTick, avail.currentTick,
                                                      avail.max, avail.fillRate)]
    /\ UNCHANGED <<confv, http, scenv, purgev, redisv, stopped, stopChan, buckets, heap,
                   clock, pc, loc, res, obs, nops, hist>>

\* ------------------------------------------- the locks of the in-process storage
\* The same operations reduced to their lock calls.  A goroutine's remaining
\* work is a sequence of instructions: RLock / RUnlock / Lock / Unlock on
\* storage.bucketLock, b.Lock / b.Unlock on the lock of bucket b, and "find",
\* the map access it makes while it holds bucketLock.  lk.w is who owns the
\* writer side of the RWMutex (from the start of Lock() to Unlock()), lk.wr who
\* holds it for writing (once the readers have left), lk.rd who holds it for
\* reading, lk.m who holds each bucket's lock (sets of goroutines: empty when
\* the lock is free), lk.reg the bucket installed for the key.
\* the purge goroutine NewMemStorage starts, numbered after the callers
Purge == Cardinality(Clients) + 1
LkProcs == Clients \cup {Purge}
LkOps == {"Take", "Get", "Set", "Burst", "Close"}
I(do, b) == [do |-> do, b |-> b]
NoLk == [todo |-> [p \in LkProcs |-> <<>>],
         op |-> [p \in LkProcs |-> "none"],
         w |-> {}, wr |-> {}, rd |-> {},
         m |-> [a \in Addrs |-> {}],
         reg |-> 0, stopped |-> 0, calls |-> Cardinality(Calls)]

\* a bucket.take that looks the key up again before it lets go of the bucket
bucket_take_registry(b) == <<I("b.Lock", b), I("RLock", 0), I("RUnlock", 0), I("b.Unlock", b)>>

\* bucket.take: b.lock.Lock() ... b.lock.Unlock()
bucket_take(b) == <<I("b.Lock", b), I("b.Unlock", b)>>

\* bucket.get: b.lock.Lock(); defer b.lock.Unlock()
bucket_get(b) == <<I("b.Lock", b), I("b.Unlock", b)>>

\* the bucket objects some goroutine or the registry still refers to
LkRefs ==
    {lk.reg} \cup UNION {{lk.todo[p][i].b : i \in 1..Len(lk.todo[p])} : p \in LkProcs}
LkNew == CHOOSE a \in Addrs : a \notin LkRefs /\ \A b \in Addrs : b \notin LkRefs => a <= b

\* what is left of operation op of goroutine p after its map access, which
\* found bucket b (0: none) or, where the code installs one, installed b
Rest(p, op, b) ==
    CASE op = "Take" ->
            IF p \in lk.rd
            THEN IF b # 0 THEN <<I("RUnlock", 0)>> \o bucket_take(b)
                 ELSE <<I("RUnlock", 0), I("Lock", 0), I("find", 0)>>
            ELSE <<I("Unlock", 0)>> \o bucket_take(b)
      [] op = "Get" ->
            IF b # 0 THEN <<I("RUnlock", 0)>> \o bucket_get(b)
            ELSE <<I("RUnlock", 0)>>
      [] op = "Set" -> <<I("Unlock", 0)>>
      [] op = "Burst" ->
            IF lk.reg # 0 THEN <<I("b.Lock", b), I("Unlock", 0), I("b.Unlock", b)>>
            ELSE <<I("Unlock", 0)>>
      [] op = "Close" -> <<I("Unlock", 0)>>
      [] op = "purge" ->
            IF b # 0 THEN <<I("b.Lock", b), I("b.Unlock", b), I("Unlock", 0)>>
            ELSE <<I("Unlock", 0)>>

\* everything but the locks
storev == <<confv, http, avail, took, ttl, purgev, redisv, stopped, stopChan, buckets,
            heap, clock, pc, loc, res, obs, nops, hist>>

LkAt(p, do) == lk.todo[p] # <<>> /\ Head(lk.todo[p]).do = do
LkDone(p) == [lk.todo EXCEPT ![p] = Tail(@)]

\* a caller starts an operation, up to its first lock call: Take and Get
\* return at once on a stopped storage, Close unless it wins the flag
LockCall(p, op) ==
    LET runs == CASE op \in {"Take", "Get"} -> lk.stopped = 0
                  [] op = "Close" -> CompareAndSwapUint32(lk.stopped, 0)
                  [] OTHER -> TRUE
        first == IF op \in {"Take", "Get"} THEN "RLock" ELSE "Lock"
    IN  /\ lk.todo[p] = <<>>
        /\ lk.calls > 0
        /\ lk' = [lk EXCEPT !.calls = @ - 1,
                            !.op[p] = op,
                            !.stopped = IF op = "Close" THEN 1 ELSE @,
                            !.todo[p] = IF runs THEN <<I(first, 0), I("find", 0)>> ELSE <<>>]
        /\ UNCHANGED storev

\* the ticker fires: purge starts a pass
PurgePass ==
    /\ lk.todo[Purge] = <<>>
    /\ lk' = [lk EXCEPT !.op[Purge] = "purge",
                        !.todo[Purge] = <<I("Lock", 0), I("find", 0)>>]
    /\ UNCHANGED storev

\* sync.RWMutex.RLock: granted unless a writer owns or awaits the lock
RLock(p) ==
    /\ LkAt(p, "RLock")
    /\ lk.w = {}
    /\ lk' = [lk EXCEPT !.rd = @ \cup {p}, !.todo = LkDone(p)]
    /\ UNCHANGED storev

RUnlock(p) ==
    /\ LkAt(p, "RUnlock")
    /\ lk' = [lk EXCEPT !.rd = @ \ {p}, !.todo = LkDone(p)]
    /\ UNCHANGED storev

\* sync.RWMutex.Lock: the writer side is taken first, which keeps new readers out
Lock(p) ==
    /\ LkAt(p, "Lock")
    /\ lk.w = {}
    /\ lk' = [lk EXCEPT !.w = {p}, !.todo[p] = <<I("Lock.wait", 0)>> \o Tail(@)]
    /\ UNCHANGED storev

\* ... and the lock is held once the readers have left
LockGranted(p) ==
    /\ LkAt(p, "Lock.wait")
    /\ lk.rd = {}
    /\ lk' = [lk EXCEPT !.wr = {p}, !.todo = LkDone(p)]
    /\ UNCHANGED storev

\* sync.RWMutex.Unlock.  purge has by then deleted the bucket it looked at,
\* or kept it (memstorage.go 129-131)
Unlock(p) ==
    /\ LkAt(p, "Unlock")
    /\ \E r \in (IF p = Purge THEN {0, lk.reg} ELSE {lk.reg}) :
          lk' = [lk EXCEPT !.w = {}, !.wr = {}, !.reg = r, !.todo = LkDone(p)]
    /\ UNCHANGED storev

\* the access to storage.buckets made under bucketLock
Find(p) ==
    LET op == lk.op[p]
        creates == \/ op = "Set"
                   \/ op \in {"Take", "Burst"} /\ lk.wr = {p} /\ lk.reg = 0
        b == IF creates THEN LkNew ELSE lk.reg
    IN  /\ LkAt(p, "find")
        /\ lk' = [lk EXCEPT !.reg = IF op = "Close" THEN 0 ELSE b,
                            !.todo[p] = Rest(p, op, b)]
        /\ UNCHANGED storev

\* sync.Mutex.Lock on bucket.lock
BucketLock(p) ==
    /\ LkAt(p, "b.Lock")
    /\ lk.m[Head(lk.todo[p]).b] = {}
    /\ lk' = [lk EXCEPT !.m[Head(lk.todo[p]).b] = {p}, !.todo = LkDone(p)]
    /\ UNCHANGED storev

BucketUnlock(p) ==
    /\ LkAt(p, "b.Unlock")
    /\ lk' = [lk EXCEPT !.m[Head(lk.todo[p]).b] = {}, !.todo = LkDone(p)]
    /\ UNCHANGED storev

\* a step of goroutine p inside an operation it has started
LkStep(p) ==
    \/ RLock(p) \/ RUnlock(p) \/ Lock(p) \/ LockGranted(p) \/ Unlock(p)
    \/ Find(p) \/ BucketLock(p) \/ BucketUnlock(p)

NextLock ==
    \/ \E p \in Clients, op \in LkOps : LockCall(p, op)
    \/ PurgePass
    \/ \E p \in LkProcs : RLock(p)
    \/ \E p \in LkProcs : RUnlock(p)
    \/ \E p \in LkProcs : Lock(p)
    \/ \E p \in LkProcs : LockGranted(p)
    \/ \E p \in LkProcs : Unlock(p)
    \/ \E p \in LkProcs : Find(p)
    \/ \E p \in LkProcs : BucketLock(p)
    \/ \E p \in LkProcs : BucketUnlock(p)

\* -------------------------------------------------- the script's expirations
NoTtl == [interval |-> 0, site |-> "none", seconds |-> -1]

\* nanoseconds in a second (scripttemplate.lua 61)
Second == 1000000000
\* the intervals (ns) a key is expired with: multiples of 10 ms, up to 2 s
TtlSteps == 200
TtlIntervals == {n * (Second \div 100) : n \in 1..TtlSteps}
\* where the script issues EXPIRE: with the first fields of a new record,
\* after a refill, after a token is taken
TtlSites == {"create", "refill", "consume"}

\* scripttemplate.lua 60-62: 3 * math.floor(interval / 1000000000)
timeToLive(ival) == 3 * (ival \div Second)

\* the seconds given to EXPIRE at each site (lines 71, 79, 88; 114; 120)
expireSeconds(site, ival) == IF site = "create" THEN 30 ELSE timeToLive(ival)

\* one EXPIRE of the script, on a record of the interval drawn
Expire ==
    /\ ttl.seconds = -1
    /\ ttl' = [ttl EXCEPT !.seconds = expireSeconds(ttl.site, ttl.interval)]
    /\ UNCHANGED <<confv, http, avail, lk, took, purgev, redisv, stopped, stopChan,
                   buckets, heap, clock, pc, loc, res, obs, nops, hist>>

\* ------------------------------------------------------ specification
NoHist == [seen |-> [k \in Keys |-> FALSE],
           lastSet |-> [k \in Keys |-> -1],
           lastBurst |-> [k \in Keys |-> -1],
           swept |-> [k \in Keys |-> FALSE],
           lastDone |-> [k \in Keys |-> 0],
           closeReturned |-> FALSE,
           kept |-> EmptyBag,
           bucket |-> [a \in Addrs |-> NoBucketHist]]

InitStorage ==
    /\ sweepMinTTL \in TTLs
    /\ stopped = 0
    /\ stopChan = "open"
    /\ buckets = [k \in Keys |-> 0]
    /\ bucketLock = NoOne
    /\ heap = [a \in Addrs |-> Free]
    /\ clock = 0
    /\ pc = [p \in Procs |-> "idle"]
    /\ loc = [p \in Procs |-> NoLoc]
    /\ res = [p \in Procs |-> NoRes]
    /\ obs = [p \in Procs |-> NoObs]
    /\ spc = "wait"
    /\ sloc = NoSloc
    /\ hist = NoHist
    /\ rec = [k \in Keys |-> NoRecord]
    /\ pool = [closed |-> FALSE, active |-> 0, closes |-> 0]
    /\ http = NoHttp
    /\ lk = NoLk
    /\ took = [k \in Keys |-> -1]

InitCommon == InitStorage /\ avail = NoAvail /\ ttl = NoTtl

\* NewMemStorage (memstorage.go 50-91) has run; the purge goroutine is started
InitMem ==
    /\ backend = "mem"
    /\ cfgTokens \in 1..MaxTokens
    /\ tokens = NewMemStorage_tokens(cfgTokens)
    /\ interval = LongInterval
    /\ nops = Cardinality(Calls)
    /\ InitCommon

\* NewRSWithPool has run, with Tokens left unset or set to the largest capacity
InitRedis ==
    /\ backend = "redis"
    /\ cfgTokens \in {0, MaxTokens}
    /\ tokens = NewRSWithPool_tokens(cfgTokens)
    /\ interval = LongInterval
    /\ nops = Cardinality(Calls)
    /\ InitCommon

Init == InitMem \/ InitRedis

Next ==
    \/ \E p \in Clients : Return(p)
    \/ \E p \in Clients, k \in Keys : TakeStart(p, k)
    \/ \E p \in Clients : TakeRLock(p)
    \/ \E p \in Clients : TakeLock(p)
    \/ \E p \in Clients : TakeSample(p)
    \/ \E p \in Clients : TakeCrit(p)
    \/ \E p \in Clients, k \in Keys : GetStart(p, k)
    \/ \E p \in Clients : GetRLock(p)
    \/ \E p \in Clients : GetRead(p)
    \/ \E p \in Clients, k \in Keys, tok \in Amounts, ival \in Intervals : Set(p, k, tok, ival)
    \/ \E p \in Clients, k \in Keys, tok \in Amounts : Burst(p, k, tok)
    \/ \E p \in Clients : CloseCAS(p)
    \/ \E p \in Clients : CloseClear(p)
    \/ SweepStop
    \/ SweepLock
    \/ \E k \in Keys : SweepIter(k)
    \/ \E p \in Clients, k \in Keys : RedisTakeStart(p, k)
    \/ \E p \in Clients, k \in Keys : RedisGetStart(p, k)
    \/ \E p \in Clients, k \in Keys, tok \in SetAmounts, ival \in Intervals :
           RedisSetStart(p, k, tok, ival)
    \/ \E p \in Clients, k \in Keys, tok \in Amounts : RedisBurstStart(p, k, tok)
    \/ \E p \in Clients, o \in {"pool", "unusable", "ok"} : RedisConn(p, o)
    \/ \E p \in Clients : RedisTakeDo(p)
    \/ \E p \in Clients : RedisGetDo(p)
    \/ \E p \in Clients : RedisSetDo(p)
    \/ \E p \in Clients : RedisBurstDo(p)
    \/ \E p \in Clients : RedisClose(p)
    \/ Tick

Spec == Init /\ [][Next]_vars

\* ------------------------------------------------ the HTTP middleware
\* TestNewLimiterMiddleware: requests served one after the other by a
\* middleware over an in-process storage, which may be closed meanwhile
InitHttp ==
    /\ backend = "mem"
    /\ cfgTokens \in 1..MaxTokens
    /\ tokens = NewMemStorage_tokens(cfgTokens)
    /\ interval \in Intervals
    /\ nops = Cardinality(Calls)
    /\ InitCommon

NextHttp ==
    \/ \E o \in {"ok", "err"} : HttpKeyFunc(o)
    \/ HttpTake
    \/ TakeRLock(Handler)
    \/ TakeLock(Handler)
    \/ TakeSample(Handler)
    \/ TakeCrit(Handler)
    \/ HttpRespond
    \/ \E p \in Clients : Outside(p) /\ CloseCAS(p)
    \/ \E p \in Clients : CloseClear(p)
    \/ \E p \in Clients : loc[p].op = "Close" /\ Return(p)
    \/ Tick

SpecHttp == InitHttp /\ [][NextHttp]_vars

\* ------------------------------------- Take against a server that answers
\* RedisStorage.Take called again and again by one caller on a connection
\* whose server answers EVAL with an error or with an array of integers
Caller == CHOOSE p \in Clients : \A q \in Clients : p <= q

NextReply ==
    \/ Return(Caller)
    \/ \E k \in Keys : RedisTakeStart(Caller, k)
    \/ \E o \in {"pool", "unusable", "ok"} : RedisConn(Caller, o)
    \/ RedisTakeDo(Caller)
    \/ \E r \in Replies : RedisTakeReply(Caller, r)
    \/ RedisClose(Caller)
    \/ Tick

SpecReply == InitRedis /\ [][NextReply]_vars

\* ----------------------------------------------- TestBucket_availableTokens
\* the function applied once to each combination of arguments
InitAvail ==
    /\ backend = "mem"
    /\ cfgTokens = MaxTokens
    /\ tokens = NewMemStorage_tokens(cfgTokens)
    /\ interval = LongInterval
    /\ nops = 0
    /\ InitStorage
    /\ avail \in [lastTick : AvailTicks, currentTick : AvailTicks, max : AvailMaxes,
                  fillRate : AvailRates, out : {-1}]
    /\ ttl = NoTtl

NextAvail == AvailApply

SpecAvail == InitAvail /\ [][NextAvail]_vars

\* ------------------------------------------------ the script's expirations
\* the expiration computed once for each interval and site
InitTtl ==
    /\ backend = "redis"
    /\ cfgTokens = MaxTokens
    /\ tokens = NewRSWithPool_tokens(cfgTokens)
    /\ interval = LongInterval
    /\ nops = 0
    /\ InitStorage
    /\ avail = NoAvail
    /\ ttl \in [interval : TtlIntervals, site : TtlSites, seconds : {-1}]

NextTtl == Expire

SpecTtl == InitTtl /\ [][NextTtl]_vars

\* ---------------------------------------- two callers, in process only
\* TestMemStorage_Basic cut down to two calls: two goroutines call one
\* operation each on an in-process storage of either interval, step by step,
\* while the clock advances and the purge goroutine runs its passes
InitMem2 ==
    /\ backend = "mem"
    /\ cfgTokens \in 1..MaxTokens
    /\ tokens = NewMemStorage_tokens(cfgTokens)
    /\ interval \in Intervals
    /\ nops = Cardinality(Clients)
    /\ InitCommon

NextMem2 ==
    \/ \E p \in Clients : Return(p)
    \/ \E p \in Clients, k \in Keys : TakeStart(p, k)
    \/ \E p \in Clients : TakeRLock(p)
    \/ \E p \in Clients : TakeLock(p)
    \/ \E p \in Clients : TakeSample(p)
    \/ \E p \in Clients : TakeCrit(p)
    \/ \E p \in Clients, k \in Keys : GetStart(p, k)
    \/ \E p \in Clients : GetRLock(p)
    \/ \E p \in Clients : GetRead(p)
    \/ \E p \in Clients, k \in Keys, tok \in Amounts, ival \in Intervals : Set(p, k, tok, ival)
    \/ \E p \in Clients, k \in Keys, tok \in Amounts : Burst(p, k, tok)
    \/ \E p \in Clients : CloseCAS(p)
    \/ \E p \in Clients : CloseClear(p)
    \/ SweepStop
    \/ SweepLock
    \/ \E k \in Keys : SweepIter(k)
    \/ Tick

SpecMem2 == InitMem2 /\ [][NextMem2]_vars

\* ------------------------------------------------- Takes and purge passes
\* two goroutines Take once each, step by step, while the clock advances and
\* the purge goroutine runs its passes
NextSweep ==
    \/ \E p \in Clients : Return(p)
    \/ \E p \in Clients, k \in Keys : TakeStart(p, k)
    \/ \E p \in Clients : TakeRLock(p)
    \/ \E p \in Clients : TakeLock(p)
    \/ \E p \in Clients : TakeSample(p)
    \/ \E p \in Clients : TakeCritAt(p)
    \/ SweepLock
    \/ \E k \in Keys : SweepIter(k)
    \/ Tick

SpecSweep == InitMem2 /\ [][NextSweep]_vars

\* ------------------------------------------------ the locks, scheduled fairly
\* sync.Mutex hands the lock to a goroutine that has waited (starvation mode)
\* and sync.RWMutex admits the readers that waited for a writer before the
\* next writer: a goroutine that can take its step again and again takes it
InitLock ==
    /\ backend = "mem"
    /\ cfgTokens = MaxTokens
    /\ tokens = NewMemStorage_tokens(cfgTokens)
    /\ interval = LongInterval
    /\ nops = 0
    /\ InitCommon

SpecLock == InitLock /\ [][NextLock]_vars /\ \A p \in LkProcs : SF_vars(LkStep(p))

\* ------------------------------------------- the concurrent-Take scenario
\* TestMemStorage_Take: a storage of capacity N and 2N goroutines that each
\* call Take once on one key.  The sweeper does not run a pass meanwhile.
InitTake ==
    /\ backend = "mem"
    /\ cfgTokens \in {n \in 0..MaxTokens : 2 * n <= Cardinality(Takers)}
    /\ tokens = NewMemStorage_tokens(cfgTokens)
    /\ interval \in Intervals
    /\ nops = 2 * tokens
    /\ InitCommon

NextTake ==
    \/ \E p \in Takers : Keep(p)
    \/ \E p \in Takers : TakeStart(p, "a")
    \/ \E p \in Takers : TakeRLock(p)
    \/ \E p \in Takers : TakeLock(p)
    \/ \E p \in Takers : TakeSample(p)
    \/ \E p \in Takers : TakeCrit(p)
    \/ Tick

SpecTake == InitTake /\ [][NextTake]_vars

\* ------------------------------------------------------------ properties
RECURSIVE Copies(_, _)
\* how many of the results in bag B lie in the set S
Copies(B, S) ==
    IF S = {} THEN 0
    ELSE LET x == CHOOSE y \in S : TRUE
         IN  CopiesIn(x, B) + Copies(B, S \ {x})

KeptOk == {x \in BagToSet(hist.kept) : x.res.ok}
KeptFail == {x \in BagToSet(hist.kept) : ~x.res.ok}

\* the 2N Takes of the scenario have all returned, each having sampled the
\* clock within the first interval of the key's bucket
AllTook ==
    /\ BagCardinality(hist.kept) = 2 * tokens
    /\ \A x \in BagToSet(hist.kept) :
           /\ x.res.err = "nil"
           /\ x.now < heap[buckets["a"]].startTime + interval

Ret(p, op) == pc[p] = "ret" /\ loc[p].op = op

\* the capacity the storage was asked for: Config.Tokens, 1 when left unset
Configured == IF cfgTokens = 0 THEN 1 ELSE cfgTokens

\* C2: in both backends the first Take on a never-seen key returns limit = N,
\* remaining = N-1 and ok = true, N being the configured capacity (1 when
\* unset).  Stated for a Take that is the first call made on the storage and,
\* in process, is served within the interval in which it created the bucket.
C2_FirstTake ==
    \A p \in Procs :
        ( /\ Ret(p, "Take")
          /\ obs[p].neverSeen
          /\ nops = Cardinality(Calls) - 1
          /\ backend = "mem" => loc[p].tick = 0 )
        => /\ res[p].err = "nil"
           /\ res[p].ok
           /\ res[p].limit = Configured
           /\ res[p].remaining = Configured - 1

\* C3: an in-process Take computed exactly one tick after the bucket's last
\* refill finds the balance reset to maxTokens (>= 1): it succeeds and reports
\* remaining = maxTokens - 1.
C3_FullRefill ==
    \A p \in Procs :
        ( /\ Ret(p, "Take")
          /\ backend = "mem"
          /\ obs[p].reached
          /\ obs[p].delta = 1
          /\ res[p].limit >= 1 )
        => /\ res[p].ok
           /\ res[p].remaining = res[p].limit - 1

\* C4: once Close has returned on an in-process storage, every later Take,
\* Get, Set and Burst returns ErrStopped and changes no state; Take returns
\* limit = remaining = reset = 0 and ok = false with it.
C4_AfterClose ==
    \A p \in Procs :
        ( /\ pc[p] = "ret"
          /\ backend = "mem"
          /\ obs[p].afterClose
          /\ loc[p].op \in {"Take", "Get", "Set", "Burst"} )
        => /\ res[p] = ErrRes("ErrStopped")
           /\ ~obs[p].mutated

C6_Reset ==
    \A p \in Procs :
        (Ret(p, "Take") /\ obs[p].reached) =>
            LET b   == heap[loc[p].b]
                now == loc[p].now
            IN  /\ res[p].reset =
                       b.startTime + ((now - b.startTime) \div b.interval + 1) * b.interval
                /\ now < res[p].reset
                /\ res[p].reset <= now + b.interval

\* a Take denied a token, sampled after the bucket's start, returns its reset
W_C6 ==
    \E p \in Procs :
        /\ Ret(p, "Take")
        /\ obs[p].reached
        /\ ~res[p].ok
        /\ loc[p].now > heap[loc[p].b].startTime

\* C7 as stated: on one key, the reset values of in-process Takes never
\* decrease in the order the Takes complete.
C7_Monotone ==
    \A p \in Procs :
        (Ret(p, "Take") /\ obs[p].reached) => res[p].reset >= obs[p].prevDone

\* C7 (amended): among the Takes served by one bucket object, the reset values
\* never decrease in the order the Takes sample the clock.
C7_MonotonePerBucket ==
    \A p \in Procs :
        (loc[p].op = "Take" /\ (pc[p] = "take_crit" \/ (pc[p] = "ret" /\ obs[p].reached)))
        => loc[p].reset >= obs[p].prevSampled

\* a Take sampled a later reset than the Take before it on the same bucket
W_C7 ==
    \E p \in Procs :
        /\ pc[p] = "take_crit"
        /\ obs[p].prevSampled > 0
        /\ loc[p].reset > obs[p].prevSampled

\* C8: in both backends a Get on a never-seen key returns limit = 0 and
\* remaining = 0 with no error, and no state exists for a key that no Take,
\* Set or Burst has touched (so every further Get returns the same).
C8_GetNeverSeen ==
    /\ \A k \in Keys : ~hist.seen[k] => (buckets[k] = 0 /\ rec[k] = NoRecord)
    /\ \A p \in Procs :
           (Ret(p, "Get") /\ obs[p].neverSeen) => res[p] = ErrRes("nil")

\* a Get that is not the first call of the run has answered for a never-seen key
W_C8 ==
    \E p \in Procs :
        /\ Ret(p, "Get")
        /\ obs[p].neverSeen
        /\ nops < Cardinality(Calls) - 1

\* C9: in both backends, a Get that follows Set(key, T, D) with nothing else
\* done to the key in between returns limit = T and remaining = T.
C9_SetGet ==
    \A p \in Procs :
        (Ret(p, "Get") /\ obs[p].afterSet >= 0) =>
            /\ res[p].err = "nil"
            /\ res[p].limit = obs[p].afterSet
            /\ res[p].remaining = obs[p].afterSet

C11_BurstNew ==
    \A p \in Procs :
        /\ (Ret(p, "Burst") /\ obs[p].first) =>
              LET a == buckets[loc[p].key]
              IN  /\ a # 0
                  /\ heap[a].maxTokens = U64(Configured + loc[p].tokens)
                  /\ heap[a].availableTokens = U64(Configured + loc[p].tokens)
                  /\ heap[a].interval = interval
        /\ (Ret(p, "Get") /\ obs[p].reached /\ obs[p].afterBurst >= 0) =>
              /\ res[p].err = "nil"
              /\ res[p].limit = U64(Configured + obs[p].afterBurst)
              /\ res[p].remaining = U64(Configured + obs[p].afterBurst)

\* a Get answers right after a Burst of B > 0 tokens created the bucket
W_C11 ==
    \E p \in Procs :
        /\ Ret(p, "Get")
        /\ obs[p].reached
        /\ obs[p].afterBurst > 0
        /\ res[p].limit = Configured + obs[p].afterBurst

\* C12: tokens that Burst added to an existing in-process bucket last only
\* until the next interval tick.  A Take whose tick exceeds the lastTick of a
\* bucket that Burst had added to replaces the balance, whatever it was, by the
\* refill for the ticks elapsed, which is at most maxTokens, and consumes from
\* that: what the Take leaves is the refill less the token it took, and the
\* bucket no longer holds burst tokens.
C12_BurstUntilTick ==
    \A p \in Procs :
        (Ret(p, "Take") /\ obs[p].reached /\ obs[p].refill /\ obs[p].bursted) =>
            LET b        == heap[loc[p].b]
                grown    == IF b.maxTokens = 0 THEN 0
                            ELSE (obs[p].delta * b.interval) \div b.maxTokens
                refilled == IF grown > b.maxTokens THEN b.maxTokens ELSE grown
                taken    == IF res[p].ok THEN 1 ELSE 0
            IN  /\ refilled <= b.maxTokens
                /\ b.availableTokens = refilled - taken
                /\ res[p].remaining = refilled - taken
                /\ res[p].ok = (refilled > 0)
                /\ b.lastTick = loc[p].tick
                /\ ~hist.bucket[loc[p].b].bursted

\* a Take in a later tick found a balance that a Burst had lifted above the
\* capacity and left less than the capacity
W_C12 ==
    \E p \in Procs :
        /\ Ret(p, "Take")
        /\ obs[p].reached
        /\ obs[p].refill
        /\ obs[p].bursted
        /\ obs[p].pre > res[p].limit
        /\ res[p].limit > 0
        /\ heap[loc[p].b].availableTokens < res[p].limit

\* C13: in the distributed storage Take, Get, Set and Burst work on the same
\* current-balance field, so a Take that follows Set(key, T, D), T >= 1, with
\* nothing else done to the key in between and a usable connection, returns
\* without error limit = T and remaining = T - 1.
C13_SameField ==
    \A p \in Procs :
        ( /\ backend = "redis"
          /\ Ret(p, "Take")
          /\ obs[p].afterSet >= 1
          /\ res[p].err \notin {"ErrStopped", "failed to get connection from pool",
                                "connection not usable"} ) =>
            /\ res[p].err = "nil"
            /\ res[p].limit = obs[p].afterSet
            /\ res[p].remaining = obs[p].afterSet - 1

C15_CloseOnce ==
    /\ stopChan # "panic"
    /\ pool.closes <= 1
    /\ Cardinality({p \in Procs : pc[p] = "close_clear"
                                  \/ (Ret(p, "Close") /\ obs[p].mutated)}) <= 1
    /\ \A p \in Procs : Ret(p, "Close") =>
          /\ stopped = 1
          /\ obs[p].mutated => ~hist.closeReturned
          /\ backend = "mem" =>
                /\ stopChan = "closed"
                /\ res[p].err = (IF obs[p].mutated THEN "nil" ELSE "ErrStoppedFlag")
          /\ backend = "redis" =>
                /\ res[p].err = "nil"
                /\ pool.closed
                /\ pool.closes = 1

\* in process, a second Close returns ErrStoppedFlag while the first is still
\* clearing the registry
W_C15 ==
    \E p, q \in Procs :
        /\ pc[q] = "close_clear"
        /\ Ret(p, "Close")
        /\ res[p].err = "ErrStoppedFlag"
        /\ ~obs[p].mutated

C17_Middleware ==
    /\ http.takes <= 1
    /\ http.served <= 1
    /\ http.pc # "done" => http.served = 0 /\ http.status = 0
    /\ http.pc \in {"idle", "take"} => http.takes = 0
    /\ http.pc = "done" =>
          /\ http.served = 1 <=>
                (~http.keyErr /\ http.takes = 1 /\ http.got.err = "nil" /\ http.got.ok)
          /\ http.keyErr => http.status = 500 /\ http.takes = 0
          /\ ~http.keyErr => http.takes = 1
          /\ (~http.keyErr /\ http.got.err # "nil") =>
                http.status = 500 /\ http.header = NoHeader
          /\ (~http.keyErr /\ http.got.err = "nil" /\ ~http.got.ok) =>
                /\ http.status = 429
                /\ http.header.limit = http.got.limit
                /\ http.header.remaining = http.got.remaining
                /\ http.header.reset = RFC822(http.got.reset)
                /\ http.header.retry = http.header.reset
          /\ http.served = 1 => http.status # 429 /\ http.status # 500

\* a request was refused with 429 because the bucket was empty
W_C17 ==
    /\ http.pc = "done"
    /\ http.status = 429
    /\ http.takes = 1
    /\ http.served = 0
    /\ http.header.limit = tokens
    /\ http.header.remaining = 0

\* C18: in the distributed storage every connection that Take, Get, Set or
\* Burst obtained from the pool is released exactly once on every exit path:
\* the connections out of the pool are exactly those of the calls that are
\* still between obtaining a connection and returning, and a call that has
\* returned holds none.
C18_Released ==
    /\ pool.active = Cardinality({p \in Procs : pc[p] = "r_do"})
    /\ \A p \in Procs :
          (backend = "redis" /\ pc[p] = "ret") => res[p].err # "none"

\* C19: when the script's reply does not have exactly 4 elements, Take returns
\* a non-nil error with limit = remaining = reset = 0 and ok = false: it does
\* not panic and returns no value taken from the reply.
C19_Malformed ==
    \A p \in Procs :
        (obs[p].replyLen >= 0 /\ obs[p].replyLen # 4) =>
            /\ pc[p] = "ret"
            /\ res[p].err \notin {"nil", "none"}
            /\ res[p].limit = 0
            /\ res[p].remaining = 0
            /\ res[p].reset = 0
            /\ ~res[p].ok

\* C20: for all lastTick <= currentTick, maxTokens and fillRate,
\* availableTokens returns min(maxTokens, floor((currentTick - lastTick) *
\* fillRate)): 0 when no tick has elapsed, linear in the ticks elapsed, never
\* above maxTokens.
C20_Avail ==
    (avail.out # -1 /\ avail.lastTick <= avail.currentTick) =>
        LET grown == ((avail.currentTick - avail.lastTick) * avail.fillRate.num)
                        \div avail.fillRate.den
        IN  /\ avail.out = (IF grown > avail.max THEN avail.max ELSE grown)
            /\ avail.out <= avail.max
            /\ avail.lastTick = avail.currentTick => avail.out = 0

\* C21: the lastTick of an in-process bucket object never decreases, whatever
\* the step; in particular a Take that sampled the clock in an earlier tick and
\* takes the bucket lock after a Take that sampled in a later one leaves
\* lastTick where the later one put it.
C21_LastTickMonotone ==
    [][\A a \in Addrs :
          (heap[a] # Free /\ heap'[a] # Free) => heap'[a].lastTick >= heap[a].lastTick]_vars

\* a Take has just run its critical section with a tick older than the
\* bucket's lastTick, which a concurrent Take had advanced meanwhile
W_C21 ==
    \E p \in Procs :
        /\ Ret(p, "Take")
        /\ obs[p].reached
        /\ loc[p].tick < heap[loc[p].b].lastTick

\* C22: in the distributed storage the script refills exactly when the tick it
\* computes exceeds the lastTick stored in the record and then stores the
\* computed tick, so after every Take that reached the script on a usable
\* connection the record has a start instant and its stored lastTick is the
\* tick of the Take's clock reading, and the Take returned without error.
C22_ScriptRefill ==
    \A p \in Procs :
        ( /\ backend = "redis"
          /\ Ret(p, "Take")
          /\ res[p].err \notin {"ErrStopped", "failed to get connection from pool",
                                "connection not usable"} ) =>
            LET h == rec[loc[p].key]
            IN  /\ res[p].err = "nil"
                /\ h[FIELD_START] # -1
                /\ h[FIELD_INTERVAL] > 0
                /\ h[FIELD_TICK] = tick(h[FIELD_START], clock, h[FIELD_INTERVAL])

\* C23: no in-process operation (Take, Get, Set, Burst, a sweep pass, Close)
\* requests the registry lock storage.bucketLock, for reading or for writing,
\* while it holds the lock of a bucket; and every operation that has started,
\* a sweep pass included, comes to its end whatever the interleaving.
C23_LockOrder ==
    /\ [](\A p \in LkProcs :
            (LkAt(p, "RLock") \/ LkAt(p, "Lock") \/ LkAt(p, "Lock.wait"))
                => \A a \in Addrs : p \notin lk.m[a])
    /\ \A p \in LkProcs : (lk.todo[p] # <<>>) ~> (lk.todo[p] = <<>>)

\* a sweep pass holds the registry lock and waits for the lock of the bucket
\* it examines, which a Take that found the bucket earlier is holding
W_C23 ==
    \E p \in Clients :
        /\ lk.wr = {Purge}
        /\ LkAt(Purge, "b.Lock")
        /\ lk.op[p] = "Take"
        /\ lk.m[Head(lk.todo[Purge]).b] = {p}

C25_EmptyAfterClose ==
    (backend = "mem" /\ hist.closeReturned) => \A k \in Keys : buckets[k] = 0

\* C26: every in-process Take that returns ok = true has decremented the bucket
\* that was installed in the registry under its key at the moment of the
\* decrement; it never consumes from a bucket object that a concurrent Set has
\* replaced or that the purge goroutine or Close has deleted.
C26_InstalledBucket ==
    [][\A p \in Procs :
          ( /\ pc[p] = "take_crit"
            /\ pc'[p] = "ret"
            /\ res'[p].ok ) => buckets[loc[p].key] = loc[p].b]_vars

\* C27: a purge pass deletes the bucket of a key only if no Take was served
\* from that bucket during the sweepMinTTL that preceded the instant the pass
\* sampled, whatever the interval, intervals longer than sweepMinTTL included.
C27_SweepOnlyIdle ==
    [][\A k \in Keys :
          ( /\ spc = "iter"
            /\ k \in sloc.todo
            /\ k \notin sloc'.todo
            /\ buckets'[k] = 0 ) =>
              ~( /\ took[k] >= 0
                 /\ took[k] <= sloc.now
                 /\ sloc.now - took[k] <= sweepMinTTL )]_vars

\* C28: for every bucket a purge pass examines, the instant of the bucket's
\* last refill, startTime + lastTick*interval, is not later than the instant
\* `now` the pass sampled, so that now - lastTime does not wrap around; a Take
\* that holds the bucket and advances lastTick after the pass has sampled
\* cannot make the pass delete the bucket it has just used.
C28_SweepNoWrap ==
    [][\A k \in Keys :
          ( /\ spc = "iter"
            /\ k \in sloc.todo
            /\ k \notin sloc'.todo ) =>
              LET b == heap[buckets[k]]
              IN  /\ b.startTime + b.lastTick * b.interval <= sloc.now
                  /\ buckets'[k] = 0 =>
                        sloc.now - (b.startTime + b.lastTick * b.interval) > sweepMinTTL]_vars

\* C29: every expiration the script gives a record is a strictly positive
\* number of seconds, for every interval, intervals of less than a second
\* included; so a record a Take has written is still there for the next Take
\* of the same interval.
C29_PositiveTTL ==
    ttl.seconds # -1 => ttl.seconds > 0

=============================================================================
